---- MODULE Spec2Model ----
(***************************************************************************)
(* The sapp_chat domain records (Contact, Room, Participant, Message) and  *)
(* their lifecycle hooks, as a state machine over the relational store.    *)
(*                                                                         *)
(* The store is four tables.  A table is a set of rows; a row is a record  *)
(* with the primary key "id" the store issues from a per-table counter     *)
(* (ids are never reused).  A nullable column holds <<>> (NULL) or <<v>>.  *)
(* Every save of a record runs the framework pipeline the classes hook     *)
(* into: clean() (validation), then the row is written, then after_save(). *)
(* Only the hooks that models.py overrides do anything in that pipeline.   *)
(***************************************************************************)
EXTENDS Integers, Sequences, FiniteSets, TLC

\* ---------------------------------------------------------------- bounds
NumUsers == 2
MaxRooms == 2
MaxParticipants == 2
MaxContacts == 2
MaxMessages == 3
MaxCap == 3
TicksPerHour == 2
MaxTicks == 1
MaxStampMessages == 2
MaxStatsMessages == 2

\* ------------------------------------------------------- program constants
DisappearHours == 1
StatsHours == 24
GroupThreshold == 2

Users == 1..NumUsers
Names == {"", "team"}
Caps == 1..MaxCap
Hour == TicksPerHour
StartTime == StatsHours * Hour

VARIABLES rooms, participants, messages, contacts,
          nextRoomId, nextParticipantId, nextMessageId, nextContactId,
          now, last

store == <<rooms, participants, messages, contacts>>
counters == <<nextRoomId, nextParticipantId, nextMessageId, nextContactId>>
vars == <<rooms, participants, messages, contacts,
          nextRoomId, nextParticipantId, nextMessageId, nextContactId,
          now, last>>

Null == <<>>
Some(v) == <<v>>

\* What the last operation returned to its caller: the error raised or "ok",
\* and the value returned (the rows a delete removed, the stats dict).
Outcome(op, res) == [op |-> op, res |-> res, data |-> <<>>]
Returned(op, data) == [op |-> op, res |-> "ok", data |-> data]

\* ------------------------------------------------------------ queries
\* Room.participants: Participant.objects.filter(room=self)
Room_participants(P, rid) == {p \in P : p.room = rid}

\* Room.messages: Message.objects.filter(participant__room_id=self.pk)
Room_messages(M, P, rid) ==
    {m \in M : \E p \in P : p.id = m.participant /\ p.room = rid}

\* Participant.messages: Message.objects.filter(participant_id=self.pk)
Participant_messages(M, pid) == {m \in M : m.participant = pid}

\* Message.replies: Message.objects.filter(message=self)
Message_replies(M, mid) == {m \in M : m.message = Some(mid)}

\* Room.is_group
is_group(r) == r.max_participants > GroupThreshold

RoomById(rid) == CHOOSE r \in rooms : r.id = rid
ParticipantById(pid) == CHOOSE p \in participants : p.id = pid

\* ------------------------------------------------------------ validators
\* validate_name with the group test off by one (>= for >).
validate_name_ge(r) ==
    IF r.name = "" /\ r.max_participants >= GroupThreshold
    THEN "Group Rooms need a name!"
    ELSE "ok"

\* Room.validate_name: the error raised, or "ok".
validate_name(r) ==
    IF r.name = "" /\ r.max_participants > GroupThreshold
    THEN "Group Rooms need a name!"
    ELSE "ok"

\* Room.clean: super().clean() and validate_name().
Room_clean(r) == validate_name(r)

\* Participant.validate_room_max_participants, for a Participant of room rid.
\* No clean() or save() of models.py calls it.
validate_room_max_participants(P, r) ==
    IF Cardinality(Room_participants(P, r.id)) >= r.max_participants
    THEN "Room full!"
    ELSE "ok"

\* Message.validate_admins_only, for a Message of participant p in room r.
\* No clean() or save() of models.py calls it.
validate_admins_only(r, p) ==
    IF r.admins_only /\ ~p.is_admin
    THEN "Only admins can post messages in this room."
    ELSE "ok"

\* ------------------------------------------------------- unique_together
\* Contact.Meta.unique_together = (("owner", "person"),)
Contact_unique(C, owner, person) ==
    ~\E c \in C : c.owner = owner /\ c.person = person

\* The Participant table without its unique constraint.
Participant_unique_none(P, rid, user) == TRUE

\* Participant.Meta.unique_together = (("room", "user"),)
Participant_unique(P, rid, user) ==
    ~\E p \in P : p.room = rid /\ p.user = user

\* ------------------------------------------------------ cascading deletes
\* A cascade that stops at the direct replies.
ReplyCascade_direct(M, S) ==
    S \cup {m \in M : \E s \in S : m.message = Some(s.id)}

\* on_delete=CASCADE of Message.message: the rows S and every row that
\* replies, directly or through other replies, to a row of S.
RECURSIVE ReplyCascade(_, _)
ReplyCascade(M, S) ==
    LET more == {m \in M : \E s \in S : m.message = Some(s.id)}
    IN  IF more \subseteq S THEN S ELSE ReplyCascade(M, S \cup more)

\* on_delete=CASCADE of Message.participant, then of Message.message.
ParticipantCascade(M, pids) ==
    ReplyCascade(M, {m \in M : m.participant \in pids})

\* on_delete=CASCADE of Participant.room: the Participant rows of room rid.
RoomCascade(P, rid) == {p \in P : p.room = rid}

\* ----------------------------------------------------------- Room hooks
\* Room.auto_join_room: the Participant table after the hook ran for room r.
\* pid is the id the store issues if a row is inserted.
auto_join_room(P, r, pid) ==
    IF ~\E p \in P : p.user = r.created_by
    THEN P \cup {[id |-> pid, room |-> r.id, user |-> r.created_by,
                  is_admin |-> TRUE]}
    ELSE P

\* Room.after_save
Room_after_save(P, r, pid) == auto_join_room(P, r, pid)

\* Room.save of the record r (a new row when its id is fresh, else an
\* update of the row with that id): clean, write, after_save.
Room_save(op, r) ==
    IF Room_clean(r) # "ok"
    THEN /\ last' = Outcome(op, Room_clean(r))
         /\ UNCHANGED <<store, counters>>
    ELSE /\ rooms' = {x \in rooms : x.id # r.id} \cup {r}
         /\ nextRoomId' = IF r.id = nextRoomId THEN nextRoomId + 1 ELSE nextRoomId
         /\ participants' = Room_after_save(participants, r, nextParticipantId)
         /\ nextParticipantId' = IF participants' = participants
                                 THEN nextParticipantId
                                 ELSE nextParticipantId + 1
         /\ last' = Outcome(op, "ok")
         /\ UNCHANGED <<messages, contacts, nextMessageId, nextContactId>>

\* An actor creates a Room.
Room_create(u, name, cap, ao) ==
    /\ nextRoomId <= MaxRooms
    /\ nextParticipantId <= MaxParticipants
    /\ Room_save("Room_create",
                 [id |-> nextRoomId, created_by |-> u, name |-> name,
                  max_participants |-> cap, admins_only |-> ao])
    /\ UNCHANGED now

\* An actor edits an existing Room and saves it.
Room_update(rid, name, cap, ao) ==
    /\ \E r \in rooms : r.id = rid
    /\ nextParticipantId <= MaxParticipants
    /\ Room_save("Room_update",
                 [RoomById(rid) EXCEPT !.name = name, !.max_participants = cap,
                                       !.admins_only = ao])
    /\ UNCHANGED now

\* An actor deletes a Room: its Participants and their Messages go with it.
Room_delete(rid) ==
    /\ \E r \in rooms : r.id = rid
    /\ LET gone == RoomCascade(participants, rid)
       IN  /\ rooms' = {r \in rooms : r.id # rid}
           /\ participants' = participants \ gone
           /\ messages' = messages \ ParticipantCascade(messages, {p.id : p \in gone})
    /\ last' = Returned("Room_delete",
                        1 + Cardinality(participants \ participants')
                          + Cardinality(messages \ messages'))
    /\ UNCHANGED <<contacts, counters, now>>

\* ----------------------------------------------------------- Participant
\* Participant save of a new row (an explicit join): the class overrides
\* neither clean() nor save(), so only the store's unique constraint acts.
Participant_create(rid, u, adm) ==
    /\ \E r \in rooms : r.id = rid
    /\ nextParticipantId <= MaxParticipants
    /\ IF Participant_unique(participants, rid, u)
       THEN /\ participants' = participants \cup
                   {[id |-> nextParticipantId, room |-> rid, user |-> u,
                     is_admin |-> adm]}
            /\ nextParticipantId' = nextParticipantId + 1
            /\ last' = Outcome("Participant_create", "ok")
       ELSE /\ last' = Outcome("Participant_create", "IntegrityError")
            /\ UNCHANGED <<participants, nextParticipantId>>
    /\ UNCHANGED <<rooms, messages, contacts, nextRoomId, nextMessageId,
                   nextContactId, now>>

\* An actor deletes a Participant: its Messages go with it.
Participant_delete(pid) ==
    /\ \E p \in participants : p.id = pid
    /\ participants' = {p \in participants : p.id # pid}
    /\ messages' = messages \ ParticipantCascade(messages, {pid})
    /\ last' = Returned("Participant_delete", 1 + Cardinality(messages \ messages'))
    /\ UNCHANGED <<rooms, contacts, counters, now>>

\* --------------------------------------------------------------- Contact
Contact_create(owner, person) ==
    /\ nextContactId <= MaxContacts
    /\ IF Contact_unique(contacts, owner, person)
       THEN /\ contacts' = contacts \cup
                   {[id |-> nextContactId, owner |-> owner, person |-> person]}
            /\ nextContactId' = nextContactId + 1
            /\ last' = Outcome("Contact_create", "ok")
       ELSE /\ last' = Outcome("Contact_create", "IntegrityError")
            /\ UNCHANGED <<contacts, nextContactId>>
    /\ UNCHANGED <<rooms, participants, messages, nextRoomId, nextParticipantId,
                   nextMessageId, now>>

Contact_delete(cid) ==
    /\ \E c \in contacts : c.id = cid
    /\ contacts' = {c \in contacts : c.id # cid}
    /\ last' = Returned("Contact_delete", 1)
    /\ UNCHANGED <<rooms, participants, messages, counters, now>>

\* --------------------------------------------------------------- Message
\* set_disappearing_at without the test for a value already present.
set_disappearing_at_restamp(m, t) ==
    IF m.disappering
    THEN [m EXCEPT !.disappering_at = Some(t + DisappearHours * Hour)]
    ELSE m

\* Message.set_disappearing_at on the in-memory record m at time t.
set_disappearing_at(m, t) ==
    IF m.disappering /\ m.disappering_at = Null
    THEN [m EXCEPT !.disappering_at = Some(t + DisappearHours * Hour)]
    ELSE m

\* Message.save of the in-memory record m: set_disappearing_at, then the
\* row is written (inserted, or replacing the row with the same id).
Message_save(M, m, t) ==
    {x \in M : x.id # m.id} \cup {set_disappearing_at(m, t)}

\* An actor posts a Message as participant pid, replying to reply (or Null).
Message_create(pid, reply, d, at) ==
    /\ nextMessageId <= MaxMessages
    /\ \E p \in participants : p.id = pid
    /\ reply = Null \/ \E x \in messages : reply = Some(x.id)
    /\ messages' = Message_save(messages,
                       [id |-> nextMessageId, participant |-> pid,
                        message |-> reply, disappering |-> d,
                        disappering_at |-> at, creation_timestamp |-> now],
                       now)
    /\ nextMessageId' = nextMessageId + 1
    /\ last' = Outcome("Message_create", "ok")
    /\ UNCHANGED <<rooms, participants, contacts, nextRoomId, nextParticipantId,
                   nextContactId, now>>

\* An actor loads Message mid, sets its disappering flag to d and saves it.
Message_resave(mid, d) ==
    /\ \E m \in messages : m.id = mid
    /\ LET m == CHOOSE x \in messages : x.id = mid
       IN  messages' = Message_save(messages, [m EXCEPT !.disappering = d], now)
    /\ last' = Outcome("Message_resave", "ok")
    /\ UNCHANGED <<rooms, participants, contacts, counters, now>>

\* An actor deletes a Message: its replies go with it.
Message_delete(mid) ==
    /\ \E m \in messages : m.id = mid
    /\ messages' = messages \ ReplyCascade(messages, {m \in messages : m.id = mid})
    /\ last' = Returned("Message_delete", Cardinality(messages \ messages'))
    /\ UNCHANGED <<rooms, participants, contacts, counters, now>>

\* The filter with __lt for __lte.
Expired_lt(M, t) == {m \in M : m.disappering_at # Null /\ m.disappering_at[1] < t}

\* The rows filter(disappering_at__lte=t) selects.
Expired(M, t) == {m \in M : m.disappering_at # Null /\ m.disappering_at[1] <= t}

\* Message.delete_disappearing_messages
delete_disappearing_messages ==
    /\ messages' = messages \ ReplyCascade(messages, Expired(messages, now))
    /\ last' = Returned("delete_disappearing_messages",
                        Cardinality(messages \ messages'))
    /\ UNCHANGED <<rooms, participants, contacts, counters, now>>

\* period.strftime("%H:%M") of the time t (in ticks): hour of day, minute.
strftime_HM(t) == <<(t \div Hour) % 24, ((t % Hour) * 60) \div Hour>>

\* A bucket closed at both ends (__lte for __lt).
BucketCount_lte(M, period) ==
    Cardinality({m \in M : /\ m.creation_timestamp >= period
                           /\ m.creation_timestamp <= period + Hour})

\* The count of one bucket of get_message_volume_stats:
\* filter(creation_timestamp__gte=period, creation_timestamp__lt=period+1h).
BucketCount(M, period) ==
    Cardinality({m \in M : /\ m.creation_timestamp >= period
                           /\ m.creation_timestamp < period + Hour})

\* The dict data after the first n rounds of the loop over range(24):
\* data[key] = count overwrites an entry of the same key.
RECURSIVE StatsLoop(_, _, _)
StatsLoop(M, ago, n) ==
    IF n = 0 THEN <<>>
    ELSE (strftime_HM(ago + (n - 1) * Hour) :> BucketCount(M, ago + (n - 1) * Hour))
         @@ StatsLoop(M, ago, n - 1)

\* Message.get_message_volume_stats (and get_message_volume_stats_api),
\* the returned dict.
message_volume_stats(M, t) == StatsLoop(M, t - StatsHours * Hour, StatsHours)

get_message_volume_stats ==
    /\ last' = Returned("get_message_volume_stats",
                        message_volume_stats(messages, now))
    /\ UNCHANGED <<store, counters, now>>

\* ----------------------------------------------------------------- clock
\* timezone.now() moves on by d ticks.
Tick(d, horizon) ==
    /\ now + d <= horizon
    /\ now' = now + d
    /\ last' = Outcome("Tick", "ok")
    /\ UNCHANGED <<store, counters>>

\* ------------------------------------------------------------------ Init
Init ==
    /\ rooms = {}
    /\ participants = {}
    /\ messages = {}
    /\ contacts = {}
    /\ nextRoomId = 1
    /\ nextParticipantId = 1
    /\ nextMessageId = 1
    /\ nextContactId = 1
    /\ now = StartTime
    /\ last = Outcome("init", "ok")

\* Rooms and memberships.
Next ==
    \/ \E u \in Users, name \in Names, cap \in Caps : Room_create(u, name, cap, FALSE)
    \/ \E rid \in 1..MaxRooms, name \in Names, cap \in Caps :
          Room_update(rid, name, cap, FALSE)
    \/ \E rid \in 1..MaxRooms : Room_delete(rid)
    \/ \E rid \in 1..MaxRooms, u \in Users, adm \in BOOLEAN :
          Participant_create(rid, u, adm)
    \/ \E pid \in 1..MaxParticipants : Participant_delete(pid)

Spec == Init /\ [][Next]_vars

\* Rooms alone: creation, edits and deletion.
NextRooms ==
    \/ \E u \in Users, name \in Names, cap \in Caps : Room_create(u, name, cap, FALSE)
    \/ \E rid \in 1..MaxRooms, name \in Names, cap \in Caps :
          Room_update(rid, name, cap, FALSE)
    \/ \E rid \in 1..MaxRooms : Room_delete(rid)

SpecRooms == Init /\ [][NextRooms]_vars

\* Memberships and contacts: the unique constraints.
NextUnique ==
    \/ Room_create(1, "team", MaxCap, FALSE)
    \/ \E rid \in 1..MaxRooms : Room_update(rid, "team", MaxCap, FALSE)
    \/ \E rid \in 1..MaxRooms, u \in Users : Participant_create(rid, u, FALSE)
    \/ \E pid \in 1..MaxParticipants : Participant_delete(pid)
    \/ \E p \in Users : Contact_create(1, p)
    \/ \E cid \in 1..MaxContacts : Contact_delete(cid)

SpecUnique == Init /\ [][NextUnique]_vars

\* Posting in rooms with and without admins_only.
NextPosting ==
    \/ \E u \in Users, ao \in BOOLEAN : Room_create(u, "team", MaxCap, ao)
    \/ \E rid \in 1..MaxRooms, u \in Users, adm \in BOOLEAN :
          Participant_create(rid, u, adm)
    \/ \E pid \in 1..MaxParticipants : Message_create(pid, Null, FALSE, Null)

SpecPosting == Init /\ [][NextPosting]_vars

\* Replies and deletion cascades.
Replies == {Null} \cup {Some(i) : i \in 1..MaxMessages}

NextCascade ==
    \/ Room_create(1, "team", MaxCap, FALSE)
    \/ \E rid \in 1..MaxRooms : Room_delete(rid)
    \/ \E rid \in 1..MaxRooms : Participant_create(rid, NumUsers, FALSE)
    \/ \E pid \in 1..MaxParticipants : Participant_delete(pid)
    \/ \E pid \in 1..MaxParticipants, reply \in Replies :
          Message_create(pid, reply, FALSE, Null)
    \/ \E mid \in 1..MaxMessages : Message_delete(mid)

SpecCascade == Init /\ [][NextCascade]_vars

\* Disappearing messages: stamping at save and re-saving, as time passes.
ExpiryHorizon == StartTime + DisappearHours * Hour + MaxTicks

NextStamp ==
    \/ nextRoomId = 1 /\ Room_create(1, "team", MaxCap, FALSE)
    \/ \E d \in BOOLEAN, at \in {Null, Some(StartTime + 1)} :
          /\ nextMessageId <= MaxStampMessages
          /\ Message_create(1, Null, d, at)
    \/ \E mid \in 1..MaxMessages, d \in BOOLEAN : Message_resave(mid, d)
    \/ Tick(1, ExpiryHorizon)

SpecStamp == Init /\ [][NextStamp]_vars

\* Disappearing messages: the sweep, as time passes.
NextSweep ==
    \/ nextRoomId = 1 /\ Room_create(1, "team", MaxCap, FALSE)
    \/ \E reply \in Replies, d \in BOOLEAN : Message_create(1, reply, d, Null)
    \/ delete_disappearing_messages
    \/ Tick(1, ExpiryHorizon)

SpecSweep == Init /\ [][NextSweep]_vars

\* Message volume statistics: the clock is followed tick by tick for
\* StatsSpan ticks from the start, and again a day later.
StatsSpan == Hour + MaxTicks
StatsHorizon == StartTime + StatsHours * Hour + StatsSpan

NextStats ==
    \/ nextRoomId = 1 /\ Room_create(1, "", GroupThreshold, FALSE)
    \/ /\ nextMessageId <= MaxStatsMessages
       /\ Message_create(1, Null, FALSE, Null)
    \/ get_message_volume_stats
    \/ \E d \in {1, Hour} :
          /\ ((now - StartTime) % (StatsHours * Hour)) + d <= StatsSpan
          /\ Tick(d, StatsHorizon)
    \/ Tick(StatsHours * Hour, StatsHorizon)

SpecStats == Init /\ [][NextStats]_vars

\* ======================================================================
\* Properties
\* ======================================================================
Ids(T) == {x.id : x \in T}

\* C1: after a successful room creation exactly one Participant of the new
\* room has user = creator and is_admin = true.
C1_CreatorIsAdminOfNewRoom ==
    (last.op = "Room_create" /\ last.res = "ok") =>
        LET r == RoomById(nextRoomId - 1)
        IN  Cardinality({p \in participants :
                           p.room = r.id /\ p.user = r.created_by /\ p.is_admin}) = 1

\* C2: a join (here: of a user not yet in the room) attempted when the room
\* already holds max_participants or more Participants is rejected with
\* "Room full!" and leaves the Participants unchanged; below the capacity
\* it succeeds and adds exactly one Participant to the room.
C2_JoinStep ==
    \A rid \in 1..MaxRooms, u \in Users, adm \in BOOLEAN :
        (/\ Participant_create(rid, u, adm)
         /\ \A p \in participants : ~(p.room = rid /\ p.user = u)) =>
            LET before == Cardinality({p \in participants : p.room = rid})
                after == Cardinality({p \in participants' : p.room = rid})
            IN  IF before >= RoomById(rid).max_participants
                THEN last'.res = "Room full!" /\ participants' = participants
                ELSE last'.res = "ok" /\ after = before + 1

\* C2: every join step is rejected when the room is full, else adds one.
C2_FullRoomRejectsJoin == [][C2_JoinStep]_vars

\* C3: every Message in a room with admins_only = true was posted by an
\* admin Participant (no Participant or Room is edited once posted to here).
C3_AdminsOnlyRoomsHoldAdminPosts ==
    \A m \in messages :
        \A p \in participants : p.id = m.participant =>
            \A r \in rooms : r.id = p.room =>
                (r.admins_only => p.is_admin)

\* C9: no room ever holds more Participants than its max_participants.
C9_RoomNeverOverfull ==
    \A r \in rooms :
        Cardinality({p \in participants : p.room = r.id}) <= r.max_participants

\* C7: creating a Room with max_participants > 2 and an empty name fails
\* with "Group Rooms need a name!" and persists nothing (no Room, no
\* auto-joined Participant); with a name, or with max_participants <= 2, the
\* creation passes validation and the Room is persisted.  No persisted Room
\* has max_participants > 2 and an empty name.
C7_NoUnnamedGroup ==
    \A r \in rooms : ~(r.max_participants > 2 /\ r.name = "")

C7_CreateStep ==
    \A u \in Users, name \in Names, cap \in Caps, ao \in BOOLEAN :
        Room_create(u, name, cap, ao) =>
            IF cap > 2 /\ name = ""
            THEN /\ last'.res = "Group Rooms need a name!"
                 /\ rooms' = rooms
                 /\ participants' = participants
            ELSE /\ last'.res = "ok"
                 /\ \E r \in rooms' : /\ r.id \notin Ids(rooms)
                                      /\ r.name = name
                                      /\ r.max_participants = cap

\* C7: no unnamed group room is ever persisted, and every creation step
\* validates the name before anything is written.
C7_GroupRoomsNeedAName == []C7_NoUnnamedGroup /\ [][C7_CreateStep]_vars

W_C7_UnnamedGroupRejected ==
    /\ last.op = "Room_create"
    /\ last.res = "Group Rooms need a name!"
    /\ \E r \in rooms : r.max_participants > 2

\* C8: no two Contacts share (owner, person) and no two Participants share
\* (room, user); an insert of a pair that is already present fails with a
\* uniqueness error and leaves the table unchanged, and the auto-join of a
\* room save never adds a second row of a pair.
C8_PairsUnique ==
    /\ \A a \in contacts, b \in contacts :
          (a.owner = b.owner /\ a.person = b.person) => a = b
    /\ \A a \in participants, b \in participants :
          (a.room = b.room /\ a.user = b.user) => a = b

C8_InsertStep ==
    /\ \A o \in Users, q \in Users :
          (/\ Contact_create(o, q)
           /\ \E c \in contacts : c.owner = o /\ c.person = q) =>
              last'.res = "IntegrityError" /\ contacts' = contacts
    /\ \A rid \in 1..MaxRooms, u \in Users, adm \in BOOLEAN :
          (/\ Participant_create(rid, u, adm)
           /\ \E p \in participants : p.room = rid /\ p.user = u) =>
              last'.res = "IntegrityError" /\ participants' = participants
    /\ \A rid \in 1..MaxRooms :
          (/\ last'.op \in {"Room_create", "Room_update"}
           /\ \E r \in rooms' : r.id = rid
           /\ \E p \in participants :
                 p.room = rid /\ p.user = (CHOOSE r \in rooms' : r.id = rid).created_by)
          => participants' = participants

\* C8: the pairs stay unique, and every insert of a present pair fails and
\* changes nothing.
C8_UniqueTogether == []C8_PairsUnique /\ [][C8_InsertStep]_vars

W_C8_DuplicateRejected ==
    /\ last.op = "Participant_create"
    /\ last.res = "IntegrityError"
    /\ contacts # {}

\* C10: no dangling reference: every Participant's room exists, every
\* Message's participant exists, every reply-to target exists.  A deleted
\* Room takes its Participants and their Messages with it; a deleted Message
\* takes every Message that replies to it, directly or through other replies.
RECURSIVE Ancestors(_, _)
Ancestors(M, m) ==
    IF m.message = Null THEN {}
    ELSE LET parents == {x \in M : x.id = m.message[1]}
         IN  parents \cup UNION {Ancestors(M, x) : x \in parents}

C10_NoDangling ==
    /\ \A p \in participants : p.room \in Ids(rooms)
    /\ \A m \in messages : m.participant \in Ids(participants)
    /\ \A m \in messages : m.message # Null => m.message[1] \in Ids(messages)

C10_DeleteStep ==
    /\ \A r \in rooms : r.id \notin Ids(rooms') =>
          \A p \in participants : p.room = r.id =>
              /\ p.id \notin Ids(participants')
              /\ \A m \in messages : m.participant = p.id => m.id \notin Ids(messages')
    /\ \A m \in messages : m.id \notin Ids(messages') =>
          \A x \in messages : m \in Ancestors(messages, x) => x.id \notin Ids(messages')

IsExpired(m, t) == m.disappering_at # Null /\ m.disappering_at[1] <= t

C4_SweepStepAsClaimed ==
    delete_disappearing_messages =>
        \A m \in messages : m \in messages' <=> ~IsExpired(m, now)

C4_SweepStep ==
    delete_disappearing_messages =>
        /\ \A m \in messages :
              m \in messages' <=>
                  ~(\/ IsExpired(m, now)
                    \/ \E a \in Ancestors(messages, m) : IsExpired(a, now))
        /\ messages' \subseteq messages
        /\ last.op = "delete_disappearing_messages" =>
              (messages' = messages /\ last'.data = 0)

C5_SaveStep ==
    /\ \A at \in {Null, Some(StartTime + 1)}, d \in BOOLEAN :
          Message_create(1, Null, d, at) =>
              \E m \in messages' :
                  /\ m.id \notin Ids(messages)
                  /\ m.disappering_at =
                        IF d /\ at = Null THEN Some(now + TicksPerHour) ELSE at
    /\ \A old \in messages, new \in messages' :
          old.id = new.id =>
              /\ old.disappering_at # Null => new.disappering_at = old.disappering_at
              /\ ~new.disappering => new.disappering_at = old.disappering_at
              /\ (new.disappering /\ old.disappering_at = Null
                    /\ last'.op = "Message_resave") =>
                    new.disappering_at = Some(now + TicksPerHour)

\* C5: every save step stamps disappering_at once, at save time + 1 hour.
C5_StampedOnceAtSave == [][C5_SaveStep]_vars

W_C5_ResavedLater ==
    /\ last.op = "Message_resave"
    /\ \E m \in messages :
          /\ m.disappering
          /\ m.disappering_at = Some(m.creation_timestamp + TicksPerHour)
          /\ now > m.creation_timestamp

\* C6: get_message_volume_stats returns exactly 24 entries, one per hour
\* bucket [now-24h+i*1h, now-24h+(i+1)*1h), i = 0..23, each the number of
\* Messages created in its bucket; the counts add up to the number of
\* Messages created in [now-24h, now); the call modifies no record.
RECURSIVE SumOver(_, _)
SumOver(f, S) ==
    IF S = {} THEN 0
    ELSE LET k == CHOOSE x \in S : TRUE IN f[k] + SumOver(f, S \ {k})

InWindow(m, t) ==
    m.creation_timestamp >= t - 24 * TicksPerHour /\ m.creation_timestamp < t

C6_StatsOfTheDay ==
    last.op = "get_message_volume_stats" =>
        /\ Cardinality(DOMAIN last.data) = 24
        /\ \A i \in 0..23 :
              LET start == now - 24 * TicksPerHour + i * TicksPerHour
              IN  /\ strftime_HM(start) \in DOMAIN last.data
                  /\ last.data[strftime_HM(start)] =
                        Cardinality({m \in messages :
                            /\ m.creation_timestamp >= start
                            /\ m.creation_timestamp < start + TicksPerHour})
        /\ SumOver(last.data, DOMAIN last.data) =
              Cardinality({m \in messages : InWindow(m, now)})

C6_StatsStep == get_message_volume_stats => UNCHANGED <<store, counters>>

\* C6: every returned stats dict has the 24 bucket counts of the trailing
\* day, and the call changes no row.
C6_VolumeStats == []C6_StatsOfTheDay /\ [][C6_StatsStep]_vars

W_C6_OneInOneOut ==
    /\ last.op = "get_message_volume_stats"
    /\ SumOver(last.data, DOMAIN last.data) = 1
    /\ \E m \in messages : m.creation_timestamp < now - 24 * TicksPerHour
    /\ \E m \in messages : m.creation_timestamp = now - 24 * TicksPerHour

====
